---- MODULE Spec2Model ----
(***************************************************************************)
(* JobSearchBot (src/joy.py): a Telegram bot that keeps one profile per    *)
(* chat, parses preference commands, and runs send_jobs_to_user in         *)
(* per-user threads that share the in-memory users dict.                   *)
(*                                                                         *)
(* Texts are sequences of one-character strings so that startswith,        *)
(* replace, strip, split and int() are computed as Python computes them.   *)
(* last_activity (a wall-clock timestamp) is not modelled.                 *)
(***************************************************************************)
EXTENDS Integers, Sequences, FiniteSets, TLC

VARIABLES
    users,      \* self.users: chat id -> profile dict (in memory)
    disk,       \* contents of users_data.json (last successful save_users)
    hashseed,   \* the process's str-hash seed (fixed for a process lifetime)
    inChat,     \* chat id of the update handled last (0: none yet)
    inText,     \* text of the update handled last ("doc:...": a document)
    reply,      \* messages sent on the control thread by that handler
    th,         \* per-thread locals of send_jobs_to_user / send_resume_analysis
    last_update_id, \* self.last_update_id (0: None)
    inbox,      \* Telegram's side of getUpdates: the updates, oldest first
                \* (update i has update_id i), and how many are confirmed
    ctl,        \* the control thread: where it is in run and what it did last
    torn,       \* the file is open for writing and holds no complete dump
    sched       \* the jobs the schedule holds, in the order they were added

vars == <<users, disk, hashseed, inChat, inText, reply, th,
          last_update_id, inbox, ctl, torn, sched>>

\* what the handlers of single updates and the run threads leave alone
loopvars == <<last_update_id, inbox, ctl, torn, sched>>

-----------------------------------------------------------------------------
(* Bounds of the model *)

MaxRuns == 2
MaxUpdates == 3

(* Program constants *)

JobsSentCap == 100
PerSourceCap == 10
DefaultMinScore == 70
FallbackScore == 50
ScoreLo == 0
ScoreHi == 100
TimeLen == 5

Chats == {1001}
Threads == 1..MaxRuns
Seeds == {0, 1}

-----------------------------------------------------------------------------
(* Python str operations on texts *)

Digits == {"0","1","2","3","4","5","6","7","8","9"}

DigitVal(c) ==
    CASE c = "0" -> 0 [] c = "1" -> 1 [] c = "2" -> 2 [] c = "3" -> 3
      [] c = "4" -> 4 [] c = "5" -> 5 [] c = "6" -> 6 [] c = "7" -> 7
      [] c = "8" -> 8 [] c = "9" -> 9

StartsWith(s, p) == Len(s) >= Len(p) /\ SubSeq(s, 1, Len(p)) = p

Contains(s, c) == \E i \in 1..Len(s) : s[i] = c

RECURSIVE Remove(_, _)
\* s.replace(p, ""): every non-overlapping occurrence of p, left to right
Remove(s, p) ==
    IF s = <<>> THEN <<>>
    ELSE IF StartsWith(s, p) THEN Remove(SubSeq(s, Len(p) + 1, Len(s)), p)
    ELSE <<Head(s)>> \o Remove(Tail(s), p)

RECURSIVE LStrip(_)
LStrip(s) == IF s # <<>> /\ Head(s) = " " THEN LStrip(Tail(s)) ELSE s

RECURSIVE RStrip(_)
RStrip(s) ==
    IF s # <<>> /\ s[Len(s)] = " " THEN RStrip(SubSeq(s, 1, Len(s) - 1)) ELSE s

Strip(s) == RStrip(LStrip(s))

RECURSIVE Split(_, _)
\* s.split(sep) for a one-character sep: "".split(sep) is [""]
Split(s, sep) ==
    IF ~Contains(s, sep) THEN <<s>>
    ELSE LET i == CHOOSE k \in 1..Len(s) :
                      s[k] = sep /\ \A j \in 1..(k - 1) : s[j] # sep
         IN  <<SubSeq(s, 1, i - 1)>> \o Split(SubSeq(s, i + 1, Len(s)), sep)

RECURSIVE DigitsValue(_)
DigitsValue(s) ==
    IF s = <<>> THEN 0
    ELSE 10 * DigitsValue(SubSeq(s, 1, Len(s) - 1)) + DigitVal(s[Len(s)])

AllDigits(s) == s # <<>> /\ \A i \in 1..Len(s) : s[i] \in Digits

\* int(s): surrounding blanks ignored, optional sign, decimal digits;
\* anything else raises ValueError (ok = FALSE)
PyInt(s0) ==
    LET s == Strip(s0)
        signed == s # <<>> /\ Head(s) \in {"+", "-"}
        body == IF signed THEN Tail(s) ELSE s
    IN  IF AllDigits(body)
        THEN [ok |-> TRUE,
              val |-> IF signed /\ Head(s) = "-" THEN 0 - DigitsValue(body)
                      ELSE DigitsValue(body)]
        ELSE [ok |-> FALSE, val |-> 0]

\* ''.join(filter(str.isdigit, line))
FilterDigits(s) == SelectSeq(s, LAMBDA c : c \in Digits)

Map(f(_), s) == [i \in 1..Len(s) |-> f(s[i])]

Min(a, b) == IF a < b THEN a ELSE b
Max(a, b) == IF a > b THEN a ELSE b

\* s[-n:]
LastN(s, n) == IF Len(s) <= n THEN s ELSE SubSeq(s, Len(s) - n + 1, Len(s))
\* s[:n]
FirstN(s, n) == IF Len(s) <= n THEN s ELSE SubSeq(s, 1, n)

\* Optional arguments (None / a value)
None == <<>>
Some(v) == <<v>>

-----------------------------------------------------------------------------
(* Inbound texts *)

T_start == <<"/","s","t","a","r","t">>  \* "/start"
T_start_arg == <<"/","s","t","a","r","t"," ","r","e","f","4","2">>  \* "/start ref42"
T_start_ws == <<" ","/","s","t","a","r","t">>  \* " /start"
T_help == <<"/","h","e","l","p">>  \* "/help"
T_status == <<"/","s","t","a","t","u","s">>  \* "/status"
T_prefs_ok == <<"/","p","r","e","f","e","r","e","n","c","e","s"," ","D","e","v",","," ","M","L"," ","|"," ","R","e","m","o","t","e"," ","|"," ","8","0"," ","|"," ","0","8",":","3","0">>  \* "/preferences Dev, ML | Remote | 80 | 08:30"
T_prefs_150 == <<"/","p","r","e","f","e","r","e","n","c","e","s"," ","D","e","v"," ","|"," ","R","e","m","o","t","e"," ","|"," ","1","5","0"," ","|"," ","0","8",":","3","0">>  \* "/preferences Dev | Remote | 150 | 08:30"
T_prefs_neg == <<"/","p","r","e","f","e","r","e","n","c","e","s"," ","D","e","v"," ","|"," ","R","e","m","o","t","e"," ","|"," ","-","5"," ","|"," ","0","8",":","3","0">>  \* "/preferences Dev | Remote | -5 | 08:30"
T_prefs_nan == <<"/","p","r","e","f","e","r","e","n","c","e","s"," ","D","e","v"," ","|"," ","R","e","m","o","t","e"," ","|"," ","h","i"," ","|"," ","0","8",":","3","0">>  \* "/preferences Dev | Remote | hi | 08:30"
T_prefs_time == <<"/","p","r","e","f","e","r","e","n","c","e","s"," ","D","e","v"," ","|"," ","R","e","m","o","t","e"," ","|"," ","8","0"," ","|"," ","8",":","3","0">>  \* "/preferences Dev | Remote | 80 | 8:30"
T_prefs_short == <<"/","p","r","e","f","e","r","e","n","c","e","s"," ","D","e","v"," ","|"," ","R","e","m","o","t","e"," ","|"," ","8","0">>  \* "/preferences Dev | Remote | 80"
T_keywords == <<"/","k","e","y","w","o","r","d","s"," ","D","e","v">>  \* "/keywords Dev"
T_keywords_empty == <<"/","k","e","y","w","o","r","d","s">>  \* "/keywords"
T_location == <<"/","l","o","c","a","t","i","o","n"," ","R","e","m","o","t","e">>  \* "/location Remote"
T_location_empty == <<"/","l","o","c","a","t","i","o","n"," ">>  \* "/location "
T_score_75 == <<"/","s","c","o","r","e"," ","7","5">>  \* "/score 75"
T_score_70 == <<"/","s","c","o","r","e"," ","7","0">>  \* "/score 70"
T_score_100 == <<"/","s","c","o","r","e"," ","1","0","0">>  \* "/score 100"
T_score_101 == <<"/","s","c","o","r","e"," ","1","0","1">>  \* "/score 101"
T_score_neg == <<"/","s","c","o","r","e"," ","-","5">>  \* "/score -5"
T_score_nan == <<"/","s","c","o","r","e"," ","h","i">>  \* "/score hi"
T_score_empty == <<"/","s","c","o","r","e">>  \* "/score"
T_time_ok == <<"/","t","i","m","e"," ","0","8",":","3","0">>  \* "/time 08:30"
T_time_4 == <<"/","t","i","m","e"," ","8",":","3","0">>  \* "/time 8:30"
T_time_colon1 == <<"/","t","i","m","e"," ","1",":","2","3","4">>  \* "/time 1:234"
T_time_nocolon == <<"/","t","i","m","e"," ","1","2","3","4","5">>  \* "/time 12345"
T_time_empty == <<"/","t","i","m","e">>  \* "/time"
T_time_2400 == <<"/","t","i","m","e"," ","2","4",":","0","0">>  \* "/time 24:00"
T_jobs == <<"/","j","o","b","s">>  \* "/jobs"
T_analyze == <<"/","a","n","a","l","y","z","e">>  \* "/analyze"
T_pause == <<"/","p","a","u","s","e">>  \* "/pause"
T_resume == <<"/","r","e","s","u","m","e">>  \* "/resume"
T_extract == <<"/","e","x","t","r","a","c","t">>  \* "/extract"
T_plain == <<"h","i">>  \* "hi"

\* the inbound texts by their Python string; the state names a text by it
TextOf ==
    ("/start" :> T_start)
    @@ ("/start ref42" :> T_start_arg)
    @@ (" /start" :> T_start_ws)
    @@ ("/help" :> T_help)
    @@ ("/status" :> T_status)
    @@ ("/preferences Dev, ML | Remote | 80 | 08:30" :> T_prefs_ok)
    @@ ("/preferences Dev | Remote | 150 | 08:30" :> T_prefs_150)
    @@ ("/preferences Dev | Remote | -5 | 08:30" :> T_prefs_neg)
    @@ ("/preferences Dev | Remote | hi | 08:30" :> T_prefs_nan)
    @@ ("/preferences Dev | Remote | 80 | 8:30" :> T_prefs_time)
    @@ ("/preferences Dev | Remote | 80" :> T_prefs_short)
    @@ ("/keywords Dev" :> T_keywords)
    @@ ("/keywords" :> T_keywords_empty)
    @@ ("/location Remote" :> T_location)
    @@ ("/location " :> T_location_empty)
    @@ ("/score 75" :> T_score_75)
    @@ ("/score 70" :> T_score_70)
    @@ ("/score 100" :> T_score_100)
    @@ ("/score 101" :> T_score_101)
    @@ ("/score -5" :> T_score_neg)
    @@ ("/score hi" :> T_score_nan)
    @@ ("/score" :> T_score_empty)
    @@ ("/time 08:30" :> T_time_ok)
    @@ ("/time 8:30" :> T_time_4)
    @@ ("/time 1:234" :> T_time_colon1)
    @@ ("/time 12345" :> T_time_nocolon)
    @@ ("/time" :> T_time_empty)
    @@ ("/time 24:00" :> T_time_2400)
    @@ ("/jobs" :> T_jobs)
    @@ ("/analyze" :> T_analyze)
    @@ ("/pause" :> T_pause)
    @@ ("/resume" :> T_resume)
    @@ ("/extract" :> T_extract)
    @@ ("hi" :> T_plain)

Chars(text) == IF text \in DOMAIN TextOf THEN TextOf[text] ELSE <<>>

C_start == <<"/","s","t","a","r","t">>
C_help == <<"/","h","e","l","p">>
C_preferences == <<"/","p","r","e","f","e","r","e","n","c","e","s">>
C_keywords == <<"/","k","e","y","w","o","r","d","s">>
C_location == <<"/","l","o","c","a","t","i","o","n">>
C_score == <<"/","s","c","o","r","e">>
C_time == <<"/","t","i","m","e">>
C_jobs == <<"/","j","o","b","s">>
C_analyze == <<"/","a","n","a","l","y","z","e">>
C_pause == <<"/","p","a","u","s","e">>
C_resume == <<"/","r","e","s","u","m","e">>
C_extract == <<"/","e","x","t","r","a","c","t">>

S_AI_Engineer == <<"A","I"," ","E","n","g","i","n","e","e","r">>
S_India == <<"I","n","d","i","a">>
S_0900 == <<"0","9",":","0","0">>
S_0830 == <<"0","8",":","3","0">>

-----------------------------------------------------------------------------
(* UserStore: load_users, save_users, register_user, set_resume,           *)
(* set_search_preferences                                                  *)

\* resume texts: "" (none), an extracted CV, and the two strings that
\* extract_text_from_pdf returns instead of raising
R_none == "" 
R_cv == "cv text"
R_unable == "Unable to extract text."
R_error == "Error reading PDF."

DefaultProfile ==
    [resume |-> R_none,
     search_keywords |-> <<S_AI_Engineer>>,
     search_location |-> S_India,
     min_match_score |-> DefaultMinScore,
     jobs_sent |-> <<>>,
     notification_time |-> S_0900,
     is_active |-> TRUE,
     welcomed |-> TRUE]

EmptyStore == [c \in {} |-> DefaultProfile]

\* json.load of the file written by json.dump: dicts with str keys, lists,
\* ints, strs and bools come back unchanged; on a file that holds no
\* complete dump json.load raises and the except branch returns {}
load_users(file, incomplete) == IF incomplete THEN EmptyStore ELSE file

save_users(U) == U

register_user(U, chat) ==
    IF chat \notin DOMAIN U
    THEN [users |-> U @@ (chat :> DefaultProfile), is_new |-> TRUE, saved |-> TRUE]
    ELSE [users |-> U, is_new |-> FALSE, saved |-> FALSE]

set_resume(U, chat, resume_text) ==
    IF chat \in DOMAIN U
    THEN [users |-> [U EXCEPT ![chat].resume = resume_text], ok |-> TRUE]
    ELSE [users |-> U, ok |-> FALSE]

set_search_preferences(U, chat, keywords, location, min_score, notification_time) ==
    IF chat \in DOMAIN U
    THEN [users |->
            [U EXCEPT ![chat] =
                [@ EXCEPT
                   !.search_keywords = IF keywords # None THEN keywords[1] ELSE @,
                   !.search_location = IF location # None THEN location[1] ELSE @,
                   !.min_match_score = IF min_score # None THEN min_score[1] ELSE @,
                   !.notification_time =
                       IF notification_time # None THEN notification_time[1] ELSE @]],
          ok |-> TRUE]
    ELSE [users |-> U, ok |-> FALSE]

-----------------------------------------------------------------------------
(* ConversationRouter: parse_command.  The result holds the new users      *)
(* dict, whether save_users ran, the messages sent, and the thread (if     *)
(* any) the command starts.                                                *)

Res(U, saved, msgs, spawn) ==
    [users |-> U, saved |-> saved, msgs |-> msgs, spawn |-> spawn]

cmd_start(U, text, chat, skip_welcome) ==
    LET r == register_user(U, chat)
    IN  IF ~skip_welcome /\ (r.is_new \/ text = C_start)
        THEN Res(r.users, r.saved, <<"welcome", "ask_resume">>, "none")
        ELSE Res(r.users, r.saved, <<>>, "none")

cmd_preferences(U, text, chat) ==
    LET parts == Split(Strip(Remove(text, C_preferences)), "|")
    IN  IF Len(parts) >= 4
        THEN LET keywords == Map(Strip, Split(parts[1], ","))
                 location == Strip(parts[2])
                 min_score == PyInt(Strip(parts[3]))
                 notif_time == Strip(parts[4])
             IN  IF ~min_score.ok
                 THEN Res(U, FALSE, <<"invalid_format">>, "none")
                 ELSE LET r == set_search_preferences(U, chat, Some(keywords),
                                   Some(location), Some(min_score.val), Some(notif_time))
                      IN  Res(r.users, r.ok, <<"prefs_updated">>, "none")
        ELSE Res(U, FALSE, <<"ask_preferences">>, "none")

cmd_keywords(U, text, chat) ==
    LET keywords == Map(Strip, Split(Strip(Remove(text, C_keywords)), ","))
    IN  IF keywords # <<>> /\ keywords[1] # <<>>
        THEN LET r == set_search_preferences(U, chat, Some(keywords), None, None, None)
             IN  Res(r.users, r.ok, <<"keywords_updated">>, "none")
        ELSE Res(U, FALSE, <<"need_keyword">>, "none")

cmd_location(U, text, chat) ==
    LET location == Strip(Remove(text, C_location))
    IN  IF location # <<>>
        THEN LET r == set_search_preferences(U, chat, None, Some(location), None, None)
             IN  Res(r.users, r.ok, <<"location_updated">>, "none")
        ELSE Res(U, FALSE, <<"need_location">>, "none")

cmd_score(U, text, chat) ==
    LET score == PyInt(Strip(Remove(text, C_score)))
    IN  IF ~score.ok THEN Res(U, FALSE, <<"score_not_a_number">>, "none")
        ELSE IF ScoreLo <= score.val /\ score.val <= ScoreHi
        THEN LET r == set_search_preferences(U, chat, None, None, Some(score.val), None)
             IN  Res(r.users, r.ok, <<"score_updated">>, "none")
        ELSE Res(U, FALSE, <<"score_out_of_range">>, "none")

cmd_time(U, text, chat) ==
    LET time_str == Strip(Remove(text, C_time))
    IN  IF time_str # <<>> /\ Len(time_str) = TimeLen /\ Contains(time_str, ":")
        THEN LET r == set_search_preferences(U, chat, None, None, None, Some(time_str))
             IN  Res(r.users, r.ok, <<"time_updated">>, "none")
        ELSE Res(U, FALSE, <<"time_format">>, "none")

cmd_set_active(U, chat, flag, msg) ==
    IF chat \in DOMAIN U
    THEN Res([U EXCEPT ![chat].is_active = flag], TRUE, <<msg>>, "none")
    ELSE Res(U, FALSE, <<>>, "none")

parse_command(U, text0, chat, skip_welcome) ==
    LET text == Strip(text0)
    IN  CASE StartsWith(text, C_start) -> cmd_start(U, text, chat, skip_welcome)
          [] StartsWith(text, C_help) -> Res(U, FALSE, <<"help">>, "none")
          [] StartsWith(text, C_preferences) -> cmd_preferences(U, text, chat)
          [] StartsWith(text, C_keywords) -> cmd_keywords(U, text, chat)
          [] StartsWith(text, C_location) -> cmd_location(U, text, chat)
          [] StartsWith(text, C_score) -> cmd_score(U, text, chat)
          [] StartsWith(text, C_time) -> cmd_time(U, text, chat)
          [] StartsWith(text, C_jobs) -> Res(U, FALSE, <<"searching">>, "jobs")
          [] StartsWith(text, C_analyze) -> Res(U, FALSE, <<"analyzing">>, "analyze")
          [] StartsWith(text, C_pause) -> cmd_set_active(U, chat, FALSE, "paused")
          [] StartsWith(text, C_resume) -> cmd_set_active(U, chat, TRUE, "resumed")
          [] OTHER -> Res(U, FALSE, <<>>, "none")

\* the same loop body with no welcome suppression: skip_welcome left False
handle_text_noskip(U, text, chat) ==
    LET reg == register_user(U, chat)
        r == parse_command(reg.users, text, chat, FALSE)
    IN  Res(r.users, reg.saved \/ r.saved, r.msgs, r.spawn)

\* process_telegram_updates, the body of its loop for one text message
handle_text(U, text, chat) ==
    LET reg == register_user(U, chat)
        skip == StartsWith(text, C_start) /\ ~reg.is_new
        r == parse_command(reg.users, text, chat, skip)
    IN  Res(r.users, reg.saved \/ r.saved, r.msgs, r.spawn)

\* handle_document: outcome of the download and of the text extraction
DocOutcomes == {"doc:ok", "doc:extract_empty", "doc:extract_error",
                "doc:download_failed", "doc:no_result", "doc:exception"}

extract_text_from_pdf(outcome) ==
    CASE outcome = "doc:ok" -> R_cv
      [] outcome = "doc:extract_empty" -> R_unable
      [] OTHER -> R_error

handle_document(U, chat, outcome) ==
    CASE outcome = "doc:no_result" -> Res(U, FALSE, <<>>, "none")
      [] outcome = "doc:download_failed" -> Res(U, FALSE, <<"download_failed">>, "none")
      [] outcome = "doc:exception" -> Res(U, FALSE, <<"document_error">>, "none")
      [] OTHER ->
           LET r == set_resume(U, chat, extract_text_from_pdf(outcome))
           IN  IF r.ok
               THEN Res(r.users, TRUE, <<"resume_received", "ask_preferences">>, "none")
               ELSE Res(U, FALSE, <<"resume_save_failed">>, "none")

\* process_telegram_updates, the body of its loop for one document message
handle_doc_update(U, chat, outcome) ==
    LET reg == register_user(U, chat)
        r == handle_document(reg.users, chat, outcome)
    IN  Res(r.users, reg.saved \/ r.saved, r.msgs, r.spawn)

-----------------------------------------------------------------------------
(* SourceAggregator: scrape_jobs.  A link is a small integer; only the     *)
(* fields of a posting that send_jobs_to_user reads for its control flow   *)
(* (source, link, id) are kept.                                            *)

Links == {1, 2}

\* hash(str): fixed within a process, salted by the process's hash seed
PyHash(link, seed) == link + 10 * seed

linkedin_job(link, seed) ==
    [source |-> "LinkedIn", link |-> link, id |-> <<"li", PyHash(link, seed)>>]

indeed_job(link, seed) ==
    [source |-> "Indeed", link |-> link, id |-> <<"indeed", PyHash(link, seed)>>]

\* page: the links each source's result page holds (<<>>: no cards, or the
\* request failed and the error was logged)
scrape_jobs(page, seed) ==
    LET li == FirstN(page.li, PerSourceCap)
        ind == FirstN(page.indeed, PerSourceCap)
    IN  [i \in 1..Len(li) |-> linkedin_job(li[i], seed)]
        \o [i \in 1..Len(ind) |-> indeed_job(ind[i], seed)]

Pages ==
    {[li |-> <<>>, indeed |-> <<>>],
     [li |-> <<1>>, indeed |-> <<>>],
     [li |-> <<1>>, indeed |-> <<2>>]}

-----------------------------------------------------------------------------
(* MatchEngine: get_match_score and the scoring block                      *)

L_score_80 == <<"S","c","o","r","e",":"," ","8","0">>
L_score_40 == <<"S","c","o","r","e",":"," ","4","0">>
L_score_70 == <<"S","c","o","r","e",":"," ","7","0">>
L_score_85_of_100 == <<"S","c","o","r","e",":"," ","8","5","/","1","0","0">>
L_score_high == <<"S","c","o","r","e",":"," ","h","i","g","h">>
L_great == <<"G","r","e","a","t">>
P_score == <<"S","c","o","r","e",":">>

\* the completions the oracle can return: it raises, or returns lines
OracleOutputs ==
    {[raises |-> TRUE, lines |-> <<>>],
     [raises |-> FALSE, lines |-> <<L_great>>],
     [raises |-> FALSE, lines |-> <<L_great, L_score_80>>],
     [raises |-> FALSE, lines |-> <<L_score_40>>],
     [raises |-> FALSE, lines |-> <<L_score_70>>],
     [raises |-> FALSE, lines |-> <<L_score_85_of_100>>],
     [raises |-> FALSE, lines |-> <<L_score_high>>]}

\* p in s
HasSub(s, p) == \E i \in 1..(Len(s) - Len(p) + 1) : SubSeq(s, i, i + Len(p) - 1) = p

PyNone == [is_none |-> TRUE, score |-> 0, analysis |-> "none"]
ScoreDict(score, analysis) == [is_none |-> FALSE, score |-> score, analysis |-> analysis]

\* the try block at the end of send_resume_analysis: prompt is the name it
\* reads; when the name is unbound the NameError is caught by its except
scoring_block(prompt_bound, oracle) ==
    IF ~prompt_bound \/ oracle.raises THEN ScoreDict(FallbackScore, "error")
    ELSE LET score_lines == SelectSeq(oracle.lines, LAMBDA l : HasSub(l, P_score))
         IN  IF score_lines = <<>> THEN ScoreDict(FallbackScore, "raw")
             ELSE LET digits == FilterDigits(score_lines[1])
                  IN  IF digits = <<>> THEN ScoreDict(FallbackScore, "error")
                      ELSE ScoreDict(Min(Max(DigitsValue(digits), ScoreLo), ScoreHi), "raw")

\* get_match_score as its docstring has it: the prompt goes to the oracle and
\* the completion is parsed by the scoring block
get_match_score_wired(job_data, resume_text, oracle) == scoring_block(TRUE, oracle)

\* get_match_score builds its prompt and ends: it makes no oracle call and
\* returns None (oracle: the completion a call would have returned)
get_match_score(job_data, resume_text, oracle) == PyNone

-----------------------------------------------------------------------------
(* Threads                                                                 *)

IdleThread ==
    [pc |-> "idle", kind |-> "none", chat |-> 0, jobs |-> <<>>, new_jobs |-> <<>>,
     idx |-> 0, matches_found |-> 0, scored |-> 0, match_result |-> PyNone,
     sliced |-> <<>>, query |-> <<>>, marked |-> 0,
     out |-> <<>>, past |-> FALSE, after |-> {}]

Msg(kind, id, n) == [kind |-> kind, id |-> id, n |-> n]

Ended(t) == th[t].pc \in {"done", "crashed"}

HasIdle == \E t \in Threads : th[t].pc = "idle"
FirstIdle == CHOOSE t \in Threads : th[t].pc = "idle" /\ \A s \in Threads : th[s].pc = "idle" => t <= s

\* threading.Thread(target=..., args=(chat,)).start(); past and after are
\* bookkeeping: whether the thread ran in an earlier process, and the threads
\* of its own process that had ended when it was started
Spawned(T, spawn, chat) ==
    IF spawn = "none" THEN T
    ELSE [T EXCEPT ![FirstIdle] =
             [IdleThread EXCEPT !.pc = "start", !.kind = spawn, !.chat = chat,
                                !.after = {s \in Threads : Ended(s) /\ ~T[s].past}]]

-----------------------------------------------------------------------------
(* Scheduler: schedule_user_jobs                                           *)

ActiveChats(U) == {c \in DOMAIN U : U[c].is_active}

S_0001 == <<"0","0",":","0","1">>

\* schedule.every().day.at(key) takes HH:MM and raises ScheduleValueError on
\* anything else
AtAccepts(key) ==
    /\ Len(key) = 5 /\ key[3] = ":"
    /\ \A i \in {1, 2, 4, 5} : key[i] \in Digits
    /\ DigitsValue(SubSeq(key, 1, 2)) <= 23
    /\ DigitsValue(SubSeq(key, 4, 5)) <= 59

\* line 619 raises for some active user's notification time
ScheduleRaises(U) == \E c \in ActiveChats(U) : ~AtAccepts(U[c].notification_time)

\* a job of the schedule: what it runs (heartbeat: health_check, daily:
\* send_jobs_to_all_users, rebuild: schedule_user_jobs) and the HH:MM it runs at
Job(kind, at) == [kind |-> kind, at |-> at]

DailyKeys(S) == {S[i].at : i \in {j \in 1..Len(S) : S[j].kind = "daily"}}

HasRebuild(S) == \E i \in 1..Len(S) : S[i].kind = "rebuild"

RECURSIVE time_groups(_, _, _)
\* lines 608-614: the keys of time_groups in the order they are inserted,
\* one per distinct notification_time of the active users
time_groups(U, chats, keys) ==
    IF chats = {} THEN keys
    ELSE LET c == CHOOSE x \in chats : \A y \in chats : x <= y
             notif_time == U[c].notification_time
         IN  time_groups(U, chats \ {c},
                         IF Contains(keys, notif_time) THEN keys
                         ELSE Append(keys, notif_time))

RECURSIVE daily_jobs(_)
\* lines 617-619: one send_jobs_to_all_users job per key, until at() raises
daily_jobs(keys) ==
    IF keys = <<>> \/ ~AtAccepts(Head(keys)) THEN <<>>
    ELSE <<Job("daily", Head(keys))>> \o daily_jobs(Tail(keys))

\* lines 602-622: the schedule is cleared and the heartbeat added; the keys
\* of time_groups get one daily job each, in the order of the dict, and every
\* one of these jobs is send_jobs_to_all_users; the 00:01 job that rebuilds
\* the schedule is added last, so not at all when line 619 has raised
schedule_user_jobs(U) ==
    <<Job("heartbeat", <<>>)>>
    \o daily_jobs(time_groups(U, ActiveChats(U), <<>>))
    \o (IF ScheduleRaises(U) THEN <<>> ELSE <<Job("rebuild", S_0001)>>)

\* the control thread at the top of the loop of run, line 650.  pc: where it
\* is in the iteration; batch: the update_ids it has yet to process; slot and
\* fired: the scheduled job it ran last (<<>>: none since the last update)
\* and the threads that job started; tried: the update_ids whose processing
\* it has attempted
CtlIdle == [pc |-> "idle", slot |-> <<>>, fired |-> {}, batch |-> <<>>,
            tried |-> {}, todo |-> <<>>, k |-> 0, chat |-> 0]

-----------------------------------------------------------------------------
(* Control thread: one inbound update                                      *)

Handled(r, chat, text) ==
    /\ r.spawn # "none" => HasIdle
    /\ users' = r.users
    /\ disk' = IF r.saved THEN save_users(r.users) ELSE disk
    /\ reply' = r.msgs
    /\ inChat' = chat
    /\ inText' = text
    /\ th' = Spawned(th, r.spawn, chat)
    /\ ctl' = CtlIdle
    /\ UNCHANGED <<hashseed, last_update_id, inbox, torn, sched>>

process_text(chat, text) == Handled(handle_text(users, Chars(text), chat), chat, text)

process_document(chat, outcome) ==
    Handled(handle_doc_update(users, chat, outcome), chat, outcome)

\* send_jobs_to_all_users: one thread per active user
scheduled_run(chat) ==
    /\ chat \in DOMAIN users
    /\ users[chat].is_active
    /\ HasIdle
    /\ th' = Spawned(th, "jobs", chat)
    /\ UNCHANGED <<users, disk, hashseed, inChat, inText, reply, loopvars>>

\* set_search_preferences statement by statement, for the threads that run
\* between its statements: the four arguments, and how many of the four
\* tests of lines 95-102 have been passed
PrefField == <<"search_keywords", "search_location", "min_match_score",
               "notification_time">>

\* one of lines 95-102
write_pref(U, chat, k, arg) ==
    IF arg = None THEN U ELSE [U EXCEPT ![chat][PrefField[k]] = arg[1]]

\* the control thread takes a valid /preferences text and enters
\* set_search_preferences with the values parse_command computed (line 481)
prefs_begin(chat, text) ==
    /\ ctl.pc = "idle"
    /\ chat \in DOMAIN users
    /\ StartsWith(Strip(Chars(text)), C_preferences)
    /\ LET r == handle_text(users, Chars(text), chat)
       IN  /\ r.msgs = <<"prefs_updated">>
           /\ ctl' = [CtlIdle EXCEPT
                         !.pc = "set_prefs", !.chat = chat,
                         !.todo = <<Some(r.users[chat].search_keywords),
                                    Some(r.users[chat].search_location),
                                    Some(r.users[chat].min_match_score),
                                    Some(r.users[chat].notification_time)>>]
    /\ inChat' = chat /\ inText' = text /\ reply' = <<>>
    /\ UNCHANGED <<users, disk, hashseed, th, last_update_id, inbox, torn, sched>>

prefs_write ==
    /\ ctl.pc = "set_prefs" /\ ctl.k < Len(ctl.todo)
    /\ users' = write_pref(users, ctl.chat, ctl.k + 1, ctl.todo[ctl.k + 1])
    /\ ctl' = [ctl EXCEPT !.k = @ + 1]
    /\ UNCHANGED <<disk, hashseed, inChat, inText, reply, th,
                   last_update_id, inbox, torn, sched>>

\* lines 104-105 and 482: save, return True, confirm
prefs_end ==
    /\ ctl.pc = "set_prefs" /\ ctl.k = Len(ctl.todo)
    /\ disk' = save_users(users)
    /\ reply' = <<"prefs_updated">>
    /\ ctl' = CtlIdle
    /\ UNCHANGED <<users, hashseed, inChat, inText, th,
                   last_update_id, inbox, torn, sched>>

IdleIn(T) == {t \in Threads : T[t].pc = "idle"}

\* threading.Thread(...).start() on the thread table T
StartThread(T, kind, chat) ==
    LET t == CHOOSE x \in IdleIn(T) : \A y \in IdleIn(T) : x <= y
    IN  [T EXCEPT ![t] =
            [IdleThread EXCEPT !.pc = "start", !.kind = kind, !.chat = chat,
                               !.after = {x \in Threads :
                                            T[x].pc \in {"done", "crashed"} /\ ~T[x].past}]]

RECURSIVE StartAll(_, _)
\* line 426-430: for each active user in the dict's order, start a thread
StartAll(T, chats) ==
    IF chats = {} THEN T
    ELSE LET c == CHOOSE x \in chats : \A y \in chats : x <= y
         IN  StartAll(StartThread(T, "jobs", c), chats \ {c})

\* the daily job of slot fires in schedule.run_pending: whatever the slot,
\* the job is send_jobs_to_all_users, which starts a run for every active
\* user and returns without joining the threads
send_jobs_to_all_users(slot) ==
    /\ slot \in DailyKeys(sched)
    /\ ctl.pc \in {"idle", "pending"}
    /\ Cardinality(ActiveChats(users)) <= Cardinality(IdleIn(th))
    /\ th' = StartAll(th, ActiveChats(users))
    /\ ctl' = [ctl EXCEPT !.slot = slot, !.fired = IdleIn(th) \ IdleIn(th')]
    /\ UNCHANGED <<users, disk, hashseed, inChat, inText, reply,
                   last_update_id, inbox, torn, sched>>

\* the daily 00:01 job: schedule_user_jobs clears and rebuilds the schedule;
\* when it raises, run_pending raises and the loop of run backs off
reschedule ==
    /\ HasRebuild(sched)
    /\ ctl.pc \in {"idle", "pending"}
    /\ sched' = schedule_user_jobs(users)
    /\ ctl' = [ctl EXCEPT !.slot = S_0001, !.fired = {},
                          !.pc = IF ScheduleRaises(users) /\ ctl.pc = "pending"
                                 THEN "backoff" ELSE @]
    /\ UNCHANGED <<users, disk, hashseed, inChat, inText, reply, th,
                   last_update_id, inbox, torn>>

-----------------------------------------------------------------------------
(* save_users, statement by statement, for a process that is killed        *)
(* between its statements                                                  *)

\* the control thread handles a text whose handler changes users and calls
\* save_users (the last call, when it makes two): line 56 opens the file
\* with mode 'w', which empties it
save_begin(chat, text) ==
    /\ ctl.pc = "idle"
    /\ LET r == handle_text(users, Chars(text), chat)
       IN  /\ r.saved /\ r.spawn = "none"
           /\ users' = r.users
           /\ ctl' = [CtlIdle EXCEPT !.pc = "saving", !.todo = r.msgs]
    /\ torn' = TRUE
    /\ inChat' = chat /\ inText' = text /\ reply' = <<>>
    /\ UNCHANGED <<disk, hashseed, th, last_update_id, inbox, sched>>

\* line 57 and the end of the with block: json.dump has written all of
\* self.users and the file is closed; the handler then sends its reply
save_end ==
    /\ ctl.pc = "saving"
    /\ disk' = save_users(users)
    /\ torn' = FALSE
    /\ reply' = ctl.todo
    /\ ctl' = CtlIdle
    /\ UNCHANGED <<users, hashseed, inChat, inText, th, last_update_id, inbox, sched>>

-----------------------------------------------------------------------------
(* The loop of run, step by step: process_telegram_updates, run_pending,   *)
(* sleep                                                                   *)

\* a user sends a text: Telegram queues it
arrive(chat, text) ==
    /\ Len(inbox.updates) < MaxUpdates
    /\ inbox' = [inbox EXCEPT !.updates = Append(@, [chat |-> chat, text |-> text])]
    /\ UNCHANGED <<users, disk, hashseed, inChat, inText, reply, th,
                   last_update_id, ctl, torn, sched>>

\* lines 562-563 raise (timeout, connection error, no JSON): line 595
\* catches, nothing changes
poll_fails ==
    /\ ctl.pc = "idle"
    /\ ctl' = [ctl EXCEPT !.pc = "pending"]
    /\ UNCHANGED <<users, disk, hashseed, inChat, inText, reply, th,
                   last_update_id, inbox, torn, sched>>

\* lines 557-571: getUpdates with offset last_update_id + 1 confirms the
\* updates below the offset and returns the later ones; with no offset it
\* returns the unconfirmed ones.  A non-empty result sets last_update_id to
\* its highest update_id before any update is processed.
poll ==
    /\ ctl.pc = "idle"
    /\ LET conf == IF last_update_id > 0
                   THEN Max(inbox.confirmed, last_update_id)
                   ELSE inbox.confirmed
           ids == [k \in 1..(Len(inbox.updates) - conf) |-> conf + k]
       IN  /\ inbox' = [inbox EXCEPT !.confirmed = conf]
           /\ IF ids = <<>>
              THEN /\ ctl' = [ctl EXCEPT !.pc = "pending"]
                   /\ UNCHANGED last_update_id
              ELSE /\ ctl' = [ctl EXCEPT !.pc = "batch", !.batch = ids]
                   /\ last_update_id' = ids[Len(ids)]
    /\ UNCHANGED <<users, disk, hashseed, inChat, inText, reply, th, torn, sched>>

\* lines 573-593 for the next update of the batch.  fails: Thread.start
\* raises RuntimeError (no thread can be started); line 595 catches it and
\* the rest of the batch is not processed
process_update(fails) ==
    /\ ctl.pc = "batch" /\ ctl.batch # <<>>
    /\ LET i == Head(ctl.batch)
           u == inbox.updates[i]
           r == handle_text(users, Chars(u.text), u.chat)
           rest == IF fails THEN <<>> ELSE Tail(ctl.batch)
       IN  /\ fails => r.spawn # "none"
           /\ (~fails /\ r.spawn # "none") => HasIdle
           /\ users' = r.users
           /\ disk' = IF r.saved THEN save_users(r.users) ELSE disk
           /\ reply' = r.msgs
           /\ inChat' = u.chat
           /\ inText' = u.text
           /\ th' = IF fails THEN th ELSE Spawned(th, r.spawn, u.chat)
           /\ ctl' = [ctl EXCEPT !.batch = rest, !.tried = @ \cup {i},
                                 !.slot = <<>>, !.fired = {},
                                 !.pc = IF rest = <<>> THEN "pending" ELSE "batch"]
    /\ UNCHANGED <<hashseed, last_update_id, inbox, torn, sched>>

\* schedule.run_pending returns (line 653): every due job has run
pending_done ==
    /\ ctl.pc = "pending"
    /\ ctl' = [ctl EXCEPT !.pc = "sleep"]
    /\ UNCHANGED <<users, disk, hashseed, inChat, inText, reply, th,
                   last_update_id, inbox, torn, sched>>

\* line 656
sleep ==
    /\ ctl.pc = "sleep"
    /\ ctl' = [ctl EXCEPT !.pc = "idle"]
    /\ UNCHANGED <<users, disk, hashseed, inChat, inText, reply, th,
                   last_update_id, inbox, torn, sched>>

\* the loop with no except clause: the exception ends run
backoff_exits ==
    /\ ctl.pc = "backoff"
    /\ ctl' = [ctl EXCEPT !.pc = "exited"]
    /\ UNCHANGED <<users, disk, hashseed, inChat, inText, reply, th,
                   last_update_id, inbox, torn, sched>>

\* lines 657-659: the exception is logged, sleep(5), next iteration
backoff ==
    /\ ctl.pc = "backoff"
    /\ ctl' = [ctl EXCEPT !.pc = "idle"]
    /\ UNCHANGED <<users, disk, hashseed, inChat, inText, reply, th,
                   last_update_id, inbox, torn, sched>>

-----------------------------------------------------------------------------
(* send_jobs_to_user, one action per step of the thread.  user_data is a   *)
(* reference to self.users[chat], so every read and write goes to users.   *)

ThreadStep(t, new) ==
    /\ th' = [th EXCEPT ![t] = new]
    /\ UNCHANGED <<disk, hashseed, inChat, inText, reply, loopvars>>

Say(t, kind, id, n) == Append(th[t].out, Msg(kind, id, n))

\* the guards with the resume test of line 364 left out
run_check_noresume(t) ==
    /\ th[t].pc = "start" /\ th[t].kind = "jobs"
    /\ LET c == th[t].chat
           me == th[t]
       IN  IF c \notin DOMAIN users \/ ~users[c].is_active
           THEN ThreadStep(t, [me EXCEPT !.pc = "done"])
           ELSE ThreadStep(t, [me EXCEPT !.pc = "scrape"])
    /\ UNCHANGED users

\* the guards with the is_active test of line 359 left out
run_check_nopause(t) ==
    /\ th[t].pc = "start" /\ th[t].kind = "jobs"
    /\ LET c == th[t].chat
           me == th[t]
       IN  IF c \notin DOMAIN users
           THEN ThreadStep(t, [me EXCEPT !.pc = "done"])
           ELSE IF users[c].resume = R_none
           THEN ThreadStep(t, [me EXCEPT !.pc = "done",
                                         !.out = Say(t, "ask_resume", <<>>, 0)])
           ELSE ThreadStep(t, [me EXCEPT !.pc = "scrape"])
    /\ UNCHANGED users

\* lines 357-366: unknown or paused user: return; no resume: ask for it
run_check(t) ==
    /\ th[t].pc = "start" /\ th[t].kind = "jobs"
    /\ LET c == th[t].chat
           me == th[t]
       IN  IF c \notin DOMAIN users \/ ~users[c].is_active
           THEN ThreadStep(t, [me EXCEPT !.pc = "done"])
           ELSE IF users[c].resume = R_none
           THEN ThreadStep(t, [me EXCEPT !.pc = "done",
                                         !.out = Say(t, "ask_resume", <<>>, 0)])
           ELSE ThreadStep(t, [me EXCEPT !.pc = "scrape"])
    /\ UNCHANGED users

\* lines 369-373; query: the arguments scrape_jobs is called with
run_scrape(t, page) ==
    /\ th[t].pc = "scrape"
    /\ LET jobs == scrape_jobs(page, hashseed)
           me == [th[t] EXCEPT !.query = <<users[th[t].chat].search_keywords,
                                           users[th[t].chat].search_location>>]
       IN  IF jobs = <<>>
           THEN ThreadStep(t, [me EXCEPT !.pc = "done",
                                         !.out = Say(t, "no_new", <<>>, 0)])
           ELSE ThreadStep(t, [me EXCEPT !.pc = "filter", !.jobs = jobs])
    /\ UNCHANGED users

InList(x, s) == \E i \in 1..Len(s) : s[i] = x

\* line 376
NewJobs(jobs, jobs_sent) == SelectSeq(jobs, LAMBDA job : ~InList(job.id, jobs_sent))

\* lines 376-382
run_filter(t) ==
    /\ th[t].pc = "filter"
    /\ LET new_jobs == NewJobs(th[t].jobs, users[th[t].chat].jobs_sent)
       IN  IF new_jobs = <<>>
           THEN ThreadStep(t, [th[t] EXCEPT !.pc = "done",
                                            !.out = Say(t, "no_new", <<>>, 0)])
           ELSE ThreadStep(t, [th[t] EXCEPT !.pc = "mark", !.new_jobs = new_jobs,
                                            !.idx = 1, !.matches_found = 0])
    /\ UNCHANGED users

\* lines 415-418
Summary(t) ==
    IF th[t].matches_found = 0
    THEN Say(t, "summary_none", <<>>, Len(th[t].new_jobs))
    ELSE Say(t, "summary_sent", <<>>, th[t].matches_found)

\* the for statement of line 384: the next posting is marked seen (line
\* 386); when none is left the summary is sent and the store saved (415-421).
\* marked counts the postings of new_jobs the run has marked so far
run_mark(t) ==
    /\ th[t].pc = "mark"
    /\ LET c == th[t].chat
       IN  IF th[t].idx <= Len(th[t].new_jobs)
           THEN /\ users' = [users EXCEPT ![c].jobs_sent =
                                 Append(@, th[t].new_jobs[th[t].idx].id)]
                /\ disk' = disk
                /\ th' = [th EXCEPT ![t].pc = "trim", ![t].marked = @ + 1]
           ELSE /\ users' = users
                /\ disk' = save_users(users)
                /\ th' = [th EXCEPT ![t].pc = "done", ![t].out = Summary(t)]
    /\ UNCHANGED <<hashseed, inChat, inText, reply, loopvars>>

\* line 387
OverCap(jobs_sent) == Len(jobs_sent) > JobsSentCap

\* line 388, right-hand side: a new list holding the last 100 entries
Trimmed(jobs_sent) == LastN(jobs_sent, JobsSentCap)

\* lines 387-388 up to the slice: the new list is built but not yet stored
run_trim(t) ==
    /\ th[t].pc = "trim"
    /\ LET jobs_sent == users[th[t].chat].jobs_sent
       IN  IF OverCap(jobs_sent)
           THEN ThreadStep(t, [th[t] EXCEPT !.pc = "store", !.sliced = Trimmed(jobs_sent)])
           ELSE ThreadStep(t, [th[t] EXCEPT !.pc = "score"])
    /\ UNCHANGED users

\* line 388, the assignment to user_data["jobs_sent"]
run_store(t) ==
    /\ th[t].pc = "store"
    /\ users' = [users EXCEPT ![th[t].chat].jobs_sent = th[t].sliced]
    /\ ThreadStep(t, [th[t] EXCEPT !.pc = "score", !.sliced = <<>>])

\* lines 391-413: match_result["score"] on None raises TypeError, which
\* nothing in the thread catches
run_score(t, oracle) ==
    /\ th[t].pc = "score"
    /\ LET c == th[t].chat
           job == th[t].new_jobs[th[t].idx]
           match_result == get_match_score(job, users[c].resume, oracle)
           me == [th[t] EXCEPT !.match_result = match_result, !.scored = @ + 1]
       IN  IF match_result.is_none
           THEN ThreadStep(t, [me EXCEPT !.pc = "crashed"])
           ELSE IF match_result.score >= users[c].min_match_score
           THEN ThreadStep(t, [me EXCEPT !.pc = "mark", !.idx = @ + 1,
                                         !.matches_found = @ + 1,
                                         !.out = Say(t, "match", job.id, match_result.score)])
           ELSE ThreadStep(t, [me EXCEPT !.pc = "mark", !.idx = @ + 1])
    /\ UNCHANGED users

\* send_resume_analysis (lines 248-294); the dict its last block returns
\* is the thread's return value, which nothing reads
resume_analysis(t, oracle) ==
    /\ th[t].pc = "start" /\ th[t].kind = "analyze"
    /\ LET c == th[t].chat
       IN  IF c \notin DOMAIN users
           THEN ThreadStep(t, [th[t] EXCEPT !.pc = "done"])
           ELSE IF users[c].resume = R_none
           THEN ThreadStep(t, [th[t] EXCEPT !.pc = "done",
                                            !.out = Say(t, "ask_resume", <<>>, 0)])
           ELSE ThreadStep(t, [th[t] EXCEPT
                    !.pc = "done",
                    !.out = th[t].out \o <<Msg("analyzing", <<>>, 0), Msg("analysis", <<>>, 0)>>,
                    !.match_result = scoring_block(FALSE, oracle)])
    /\ UNCHANGED users

\* the process is killed and started again: running threads are lost, users
\* is read back from the file, str hashes are salted afresh.  Line 634 is
\* outside the try of the loop: when schedule_user_jobs raises, run ends
restart(seed) ==
    /\ users' = load_users(disk, torn)
    /\ hashseed' = seed
    /\ th' = [t \in Threads |->
                IF th[t].pc = "idle" THEN th[t]
                ELSE IF th[t].pc \in {"done", "crashed", "killed"}
                THEN [th[t] EXCEPT !.past = TRUE]
                ELSE [th[t] EXCEPT !.pc = "killed", !.past = TRUE]]
    /\ inChat' = 0 /\ inText' = "" /\ reply' = <<>>
    /\ last_update_id' = 0
    /\ ctl' = IF ScheduleRaises(load_users(disk, torn))
              THEN [CtlIdle EXCEPT !.pc = "exited"] ELSE CtlIdle
    /\ sched' = schedule_user_jobs(load_users(disk, torn))
    /\ UNCHANGED <<disk, inbox, torn>>

-----------------------------------------------------------------------------
(* Specifications                                                          *)

Prefill == [i \in 1..JobsSentCap |-> <<"li", 1000 + i>>]

\* a file left by an earlier process: one user with a resume, who has been
\* shown nothing yet or a full history of older postings
StoredUser(jobs_sent) ==
    [c \in Chats |-> [DefaultProfile EXCEPT !.resume = R_cv, !.jobs_sent = jobs_sent]]

InitWith(files) ==
    /\ disk \in files
    /\ torn = FALSE
    /\ users = load_users(disk, torn)
    /\ hashseed = 0
    /\ inChat = 0 /\ inText = "" /\ reply = <<>>
    /\ th = [t \in Threads |-> IdleThread]
    /\ last_update_id = 0
    /\ inbox = [updates |-> <<>>, confirmed |-> 0]
    /\ ctl = CtlIdle
    /\ sched = schedule_user_jobs(users)

RunTexts == {"/jobs", "/analyze", "/score 70"}

Init == InitWith({StoredUser(<<>>)})

NextRun ==
    \/ \E c \in Chats, text \in RunTexts : process_text(c, text)
    \/ \E c \in Chats : scheduled_run(c)
    \/ \E t \in Threads : run_check(t)
    \/ \E t \in Threads, page \in Pages : run_scrape(t, page)
    \/ \E t \in Threads : run_filter(t)
    \/ \E t \in Threads : run_mark(t)
    \/ \E t \in Threads : run_trim(t)
    \/ \E t \in Threads, o \in OracleOutputs : run_score(t, o)
    \/ \E t \in Threads, o \in OracleOutputs : resume_analysis(t, o)
    \/ \E seed \in Seeds : restart(seed)

Next == NextRun

Spec == Init /\ [][Next]_vars

\* the same runs for a user whose history is full
InitCap == InitWith({StoredUser(Prefill)})

NextCap ==
    \/ NextRun
    \/ \E t \in Threads : run_store(t)

SpecCap == InitCap /\ [][NextCap]_vars

CmdTexts ==
    {"/start",
     "/start ref42",
     " /start",
     "/help",
     "/status",
     "/preferences Dev, ML | Remote | 80 | 08:30",
     "/preferences Dev | Remote | 150 | 08:30",
     "/preferences Dev | Remote | -5 | 08:30",
     "/preferences Dev | Remote | hi | 08:30",
     "/preferences Dev | Remote | 80 | 8:30",
     "/preferences Dev | Remote | 80",
     "/keywords Dev",
     "/keywords",
     "/location Remote",
     "/location ",
     "/score 75",
     "/score 100",
     "/score 101",
     "/score -5",
     "/score hi",
     "/score",
     "/time 08:30",
     "/time 8:30",
     "/time 1:234",
     "/time 12345",
     "/time",
     "/pause",
     "/resume",
     "/extract",
     "hi"}

InitCmd == InitWith({EmptyStore})

NextCmd ==
    \/ \E c \in Chats, text \in CmdTexts : process_text(c, text)
    \/ \E c \in Chats, outcome \in DocOutcomes : process_document(c, outcome)

SpecCmd == InitCmd /\ [][NextCmd]_vars

\* two users with different notification times; the second has sent a
\* resume or none
SchedChats == {1001, 1002}

StoredPair(resume2) ==
    (1001 :> [DefaultProfile EXCEPT !.resume = R_cv])
    @@ (1002 :> [DefaultProfile EXCEPT !.resume = resume2, !.notification_time = S_0830])

SchedTexts == {"/jobs", "/pause"}

\* the source returns one posting
SchedPages == {[li |-> <<1>>, indeed |-> <<>>]}

InitSched == InitWith({StoredPair(R_cv), StoredPair(R_none)})

NextSched ==
    \/ \E c \in SchedChats, text \in SchedTexts : process_text(c, text)
    \/ reschedule
    \/ \E slot \in DailyKeys(sched) : send_jobs_to_all_users(slot)
    \/ \E t \in Threads : run_check(t)
    \/ \E t \in Threads, page \in SchedPages : run_scrape(t, page)
    \/ \E t \in Threads : run_filter(t)
    \/ \E t \in Threads : run_mark(t)
    \/ \E t \in Threads : run_trim(t)
    \/ \E t \in Threads, o \in OracleOutputs : run_score(t, o)

SpecSched == InitSched /\ [][NextSched]_vars

\* /preferences handled statement by statement next to runs of the same user
PrefsTexts == {"/preferences Dev, ML | Remote | 80 | 08:30"}

InitPrefs == InitWith({StoredUser(<<>>)})

NextPrefs ==
    \/ \E c \in Chats : ctl.pc = "idle" /\ process_text(c, "/jobs")
    \/ \E c \in Chats, text \in PrefsTexts : prefs_begin(c, text)
    \/ prefs_write
    \/ prefs_end
    \/ \E t \in Threads : run_check(t)
    \/ \E t \in Threads, page \in Pages : run_scrape(t, page)
    \/ \E t \in Threads : run_filter(t)
    \/ \E t \in Threads : run_mark(t)
    \/ \E t \in Threads : run_trim(t)
    \/ \E t \in Threads, o \in OracleOutputs : run_score(t, o)

SpecPrefs == InitPrefs /\ [][NextPrefs]_vars

\* commands that save, and a process that can be killed at any point
SaveTexts == {"/score 75", "/pause", "/resume"}

InitSave == InitWith({StoredUser(<<>>)})

NextSave ==
    \/ \E c \in Chats, text \in SaveTexts : save_begin(c, text)
    \/ save_end
    \/ \E seed \in Seeds : restart(seed)

SpecSave == InitSave /\ [][NextSave]_vars

\* the loop of run with updates arriving at any time
LoopTexts == {"/jobs", "/time 1:234", "/time 08:30"}

InitLoop == InitWith({StoredUser(<<>>)})

LoopStep ==
    \/ poll
    \/ poll_fails
    \/ \E fails \in BOOLEAN : process_update(fails)
    \/ pending_done
    \/ sleep
    \/ backoff

NextLoop ==
    \/ \E c \in Chats, text \in LoopTexts : arrive(c, text)
    \/ LoopStep
    \/ ctl.pc = "pending" /\ reschedule
    \/ \E slot \in DailyKeys(sched) : ctl.pc = "pending" /\ send_jobs_to_all_users(slot)

SpecLoop == InitLoop /\ [][NextLoop]_vars

\* a user pauses and resumes next to runs started by /jobs and by the slot
PauseTexts == {"/jobs", "/pause", "/resume"}

InitPause == InitWith({StoredUser(<<>>)})

NextPause ==
    \/ \E c \in Chats, text \in PauseTexts : process_text(c, text)
    \/ \E slot \in DailyKeys(sched) : send_jobs_to_all_users(slot)
    \/ \E t \in Threads : run_check(t)
    \/ \E t \in Threads, page \in Pages : run_scrape(t, page)
    \/ \E t \in Threads : run_filter(t)
    \/ \E t \in Threads : run_mark(t)
    \/ \E t \in Threads : run_trim(t)
    \/ \E t \in Threads, o \in OracleOutputs : run_score(t, o)

SpecPause == InitPause /\ [][NextPause]_vars

\* users register, change their times and pause while the schedule is
\* rebuilt at 00:01 and at every start of the process
RebuildTexts == {"/start", "/time 08:30", "/time 24:00", "/pause", "/resume"}

InitRebuild == InitWith({EmptyStore})

NextRebuild ==
    \/ \E c \in SchedChats, text \in RebuildTexts :
          ctl.pc # "exited" /\ process_text(c, text)
    \/ ctl.pc # "exited" /\ reschedule
    \/ \E seed \in Seeds : restart(seed)

SpecRebuild == InitRebuild /\ [][NextRebuild]_vars

\* every statement of the control thread returns or raises: no call blocks
\* for ever.  The last conjunct is WF_vars of process_update written out:
\* process_update is enabled exactly when pc is "batch"
FairLoop ==
    /\ SpecLoop
    /\ WF_vars(poll \/ poll_fails)
    /\ WF_vars(pending_done \/ sleep \/ backoff)
    /\ \/ []<>(ctl.pc # "batch")
       \/ []<><<\E fails \in BOOLEAN : process_update(fails)>>_vars

-----------------------------------------------------------------------------
(* Properties of send_jobs_to_user                                         *)

Count(x, s) == Cardinality({i \in 1..Len(s) : s[i] = x})

Kinds(out, kinds) == SelectSeq(out, LAMBDA m : m.kind \in kinds)

\* the thread's run is over in the running process: it returned or it died
Over(t) == th[t].pc \in {"done", "crashed"} /\ ~th[t].past

\* thread t sends a match notification in this step
SendsMatch(t) ==
    /\ Len(th'[t].out) = Len(th[t].out) + 1
    /\ th'[t].out[Len(th'[t].out)].kind = "match"

C3_JobsSentBounded ==
    /\ \A c \in DOMAIN users : Len(users[c].jobs_sent) <= JobsSentCap
    /\ \A c \in DOMAIN disk : Len(disk[c].jobs_sent) <= JobsSentCap

\* C5: every scoring step of a run returns a result whose score is an integer
\* in [0,100], and the run does not die in it.
C5_ScoringTotal ==
    \A t \in Threads :
        th[t].scored > 0 =>
            /\ ~th[t].match_result.is_none
            /\ th[t].match_result.score \in ScoreLo..ScoreHi
            /\ th[t].pc # "crashed"

\* C6: a run with new postings sends a match notification for a posting
\* exactly when its score is at least min_match_score, and when the run is over
\* it has sent exactly one summary, which reports the number of match
\* notifications the run sent (or that none met the threshold when it sent none).
C6_DeliverIffAndSummary ==
    /\ [][\A t \in Threads :
             (th[t].pc = "score" /\ th'[t].scored = th[t].scored + 1) =>
                (SendsMatch(t) <=>
                    th'[t].match_result.score >= users[th[t].chat].min_match_score)]_vars
    /\ [](\A t \in Threads :
             (Over(t) /\ th[t].new_jobs # <<>>) =>
                LET matches == Len(Kinds(th[t].out, {"match"}))
                    sums == Kinds(th[t].out, {"summary_none", "summary_sent"})
                IN  /\ Len(sums) = 1
                    /\ sums[1].kind = "summary_sent" <=> matches > 0
                    /\ sums[1].kind = "summary_sent" => sums[1].n = matches)

\* C7: when a run with new postings is over, the identity of each of its new
\* postings is in the user's jobs_sent.
C7_AllNewMarked ==
    \A t \in Threads :
        (Over(t) /\ th[t].new_jobs # <<>>) =>
            \A i \in 1..Len(th[t].new_jobs) :
                InList(th[t].new_jobs[i].id, users[th[t].chat].jobs_sent)

\* C8: a run started after another run of the same user is over, with no run
\* in between and the source returning the same postings, sends no match
\* notification and exactly one "no new jobs" message, makes no scoring call
\* and marks nothing.
C8_RerunIsNoop ==
    \A t1, t2 \in Threads :
        (/\ t1 # t2 /\ Over(t1) /\ Over(t2)
         /\ th[t2].after = {t1}
         /\ \A s \in Threads \ {t1, t2} : th[s].pc = "idle"
         /\ th[t1].chat = th[t2].chat
         /\ th[t1].jobs # <<>> /\ th[t2].jobs = th[t1].jobs)
        => /\ th[t2].out = <<Msg("no_new", <<>>, 0)>>
           /\ th[t2].scored = 0
           /\ th[t2].new_jobs = <<>>

-----------------------------------------------------------------------------
(* Properties of the command handlers, checked under SpecCmd               *)

Prefs(p) ==
    <<p.search_keywords, p.search_location, p.min_match_score, p.notification_time>>

IsCmd(text, cmd) == StartsWith(Strip(text), cmd)

Arg(text, cmd) == Strip(Remove(Strip(text), cmd))

ValidScoreArg(a) == PyInt(a).ok /\ PyInt(a).val \in ScoreLo..ScoreHi

\* five characters with the colon third (index 2 counting from 0)
ValidTimeArg(a) == Len(a) = TimeLen /\ a[3] = ":"

PrefFields(text) == Split(Arg(text, C_preferences), "|")

Malformed(text) ==
    \/ IsCmd(text, C_score) /\ ~ValidScoreArg(Arg(text, C_score))
    \/ IsCmd(text, C_time) /\ ~ValidTimeArg(Arg(text, C_time))
    \/ /\ IsCmd(text, C_preferences)
       /\ \/ Len(PrefFields(text)) < 4
          \/ ~ValidScoreArg(Strip(PrefFields(text)[3]))
          \/ ~ValidTimeArg(Strip(PrefFields(text)[4]))

Corrective(msgs) ==
    /\ msgs # <<>>
    /\ \A i \in 1..Len(msgs) :
          msgs[i] \in {"invalid_format", "ask_preferences", "score_not_a_number",
                       "score_out_of_range", "time_format"}

\* C2: every profile's min_match_score is an integer in [0,100] in every
\* reachable state, whatever /score and /preferences commands were handled.
C2_MinScoreInRange ==
    \A c \in DOMAIN users : users[c].min_match_score \in ScoreLo..ScoreHi

\* C4: a step that handles a malformed /score, /time or /preferences command
\* from a registered user leaves keywords, location, min score and
\* notification time as they were and sends a corrective reply.
C4_MalformedLeavesPrefs ==
    [][(inChat' \in DOMAIN users /\ Malformed(Chars(inText')))
          => /\ Prefs(users'[inChat']) = Prefs(users[inChat'])
             /\ Corrective(reply')]_vars

\* C9: a step that handles a text starting with /start from a chat that has
\* no profile creates the default profile and sends the welcome message
\* followed by the resume request, once.
C9_NewUserStart ==
    [][(inChat' # 0 /\ inChat' \notin DOMAIN users /\ StartsWith(Chars(inText'), C_start))
          => /\ users'[inChat'] = DefaultProfile
             /\ reply' = <<"welcome", "ask_resume">>]_vars

\* C10: a step that handles a text starting with /start from a chat that
\* already has a profile sends neither the welcome message nor the resume
\* request and leaves the users dict as it was.
C10_RepeatStartSilent ==
    [][(inChat' \in DOMAIN users /\ StartsWith(Chars(inText'), C_start))
          => /\ reply' = <<>>
             /\ users' = users]_vars

\* a profile with a resume and changed preferences has just seen /start again
C10_Witness ==
    /\ inChat \in DOMAIN users
    /\ StartsWith(Chars(inText), C_start)
    /\ reply = <<>>
    /\ users[inChat].resume = R_cv
    /\ users[inChat].min_match_score = 80
    /\ users[inChat].is_active = FALSE

\* C13: a step that handles a /time command sets the notification time to
\* the argument and confirms when the argument has 5 characters with the
\* colon third; for any other argument it leaves the notification time as it
\* was and replies with the format error.
C13_TimeIffHHMM ==
    [][(inChat' \in DOMAIN users /\ IsCmd(Chars(inText'), C_time))
          => LET a == Arg(Chars(inText'), C_time)
             IN  IF ValidTimeArg(a)
                 THEN /\ users'[inChat'].notification_time = a
                      /\ reply' = <<"time_updated">>
                 ELSE /\ users'[inChat'].notification_time =
                            users[inChat'].notification_time
                      /\ reply' = <<"time_format">>]_vars

\* C19: a step that handles a document whose text cannot be extracted leaves
\* the stored resume as it was and sends a failure message, not the "resume
\* received" confirmation nor the preferences prompt.
C19_ExtractionFailure ==
    [][(inChat' \in DOMAIN users /\ inText' \in {"doc:extract_error", "doc:extract_empty"})
          => /\ users'[inChat'].resume = users[inChat'].resume
             /\ reply' # <<>>
             /\ \A i \in 1..Len(reply') :
                   reply'[i] \notin {"resume_received", "ask_preferences"}]_vars

-----------------------------------------------------------------------------
(* Properties of the guards of send_jobs_to_user, checked under SpecSched  *)

\* C11: the step a run takes from its start for an active user whose resume
\* is empty ends the run with the resume request as its only message, with no
\* fetch made (no query, no postings), no scoring call, and users unchanged.
C11_NoResumeRun ==
    [][\A t \in Threads :
          (/\ th[t].pc = "start" /\ th[t].kind = "jobs"
           /\ th'[t] # th[t] /\ th'[t].pc # "killed"
           /\ th[t].chat \in DOMAIN users
           /\ users[th[t].chat].is_active
           /\ users[th[t].chat].resume = R_none)
          => /\ th'[t].pc = "done"
             /\ th'[t].out = <<Msg("ask_resume", <<>>, 0)>>
             /\ th'[t].query = <<>> /\ th'[t].jobs = <<>>
             /\ th'[t].scored = 0
             /\ users' = users]_vars

\* a run that a slot started for the user without resume has ended that way
C11_Witness ==
    \E t \in Threads :
        /\ t \in ctl.fired
        /\ th[t].pc = "done" /\ th[t].kind = "jobs"
        /\ users[th[t].chat].resume = R_none
        /\ users[th[t].chat].is_active
        /\ th[t].out = <<Msg("ask_resume", <<>>, 0)>>
        /\ th[t].jobs = <<>> /\ th[t].scored = 0

\* the threads this step starts
StartedNow == {t \in Threads : th[t].pc = "idle" /\ th'[t].pc = "start"}

\* the user set of the slot with key k
SlotUsers(U, k) == {c \in ActiveChats(U) : U[c].notification_time = k}

\* C14: a step in which the daily job of a slot fires starts a run for each
\* active user whose notification_time is the slot's key, and for no one else.
C14_SlotUsersOnly ==
    [][\A k \in DailyKeys(sched) :
          (ctl'.slot = k /\ StartedNow # {} /\ ctl'.fired = StartedNow)
          => {th'[t].chat : t \in StartedNow} = SlotUsers(users, k)]_vars

\* C18: the step in which a slot fires starts a run for every user of the slot
\* and leaves the control thread idle while those runs have yet to take their
\* first step; and when one run of a firing has died, another run of the same
\* firing that found new postings and is over has sent its summary.
C18_RunsIsolated ==
    /\ [][\A k \in DailyKeys(sched) :
             (ctl'.slot = k /\ StartedNow # {} /\ ctl'.fired = StartedNow)
             => /\ SlotUsers(users, k) \subseteq {th'[t].chat : t \in StartedNow}
                /\ ctl'.pc = "idle"
                /\ \A t \in StartedNow : th'[t].pc = "start"]_vars
    /\ [](\A t, s \in ctl.fired :
             (/\ t # s /\ th[t].pc = "crashed"
              /\ Over(s) /\ th[s].new_jobs # <<>>)
             => Len(Kinds(th[s].out, {"summary_none", "summary_sent"})) = 1)

-----------------------------------------------------------------------------
(* Properties of set_search_preferences next to running threads, checked   *)
(* under SpecPrefs                                                         *)

\* the preferences a profile holds between two commands: the defaults, or
\* what a whole /preferences command leaves
WholePrefs ==
    {Prefs(DefaultProfile)} \cup
    {Prefs(handle_text(StoredUser(<<>>), Chars(text), c).users[c]) :
        c \in Chats, text \in PrefsTexts}

\* C12: a valid /preferences command is one atomic update: the keywords and
\* location a run reads for its fetch, and the preferences in the saved file,
\* are those of a profile before or after a whole command, never a mix.
C12_PrefsAtomic ==
    /\ \A t \in Threads :
          th[t].query # <<>> =>
             \E w \in WholePrefs : th[t].query = <<w[1], w[2]>>
    /\ \A c \in DOMAIN disk : Prefs(disk[c]) \in WholePrefs

-----------------------------------------------------------------------------
(* Properties of the saved file, checked under SpecSave and Spec           *)

\* C16: when the process is started again after it had handled updates, the
\* users it loads are the last complete snapshot or the snapshot that was
\* being written when it was killed, and no profile of the last complete
\* snapshot is missing.
C16_SaveAtomic ==
    [][(inChat # 0 /\ inChat' = 0)
          => /\ users' = disk \/ users' = users
             /\ DOMAIN disk \subseteq DOMAIN users']_vars

\* thread s has marked a posting with this link seen
MarkedLink(s, link) ==
    \E i \in 1..th[s].marked : th[s].new_jobs[i].link = link

\* thread t has found a posting with this link new
FoundNew(t, link) ==
    \E i \in 1..Len(th[t].new_jobs) : th[t].new_jobs[i].link = link

-----------------------------------------------------------------------------
(* Properties of the loop of run, checked under SpecLoop and FairLoop      *)

\* C15: no received update is skipped: whenever the control thread is not in
\* the middle of a batch, every update up to the polling offset
\* (last_update_id) has had a processing attempt.
C15_OffsetAfterAttempt ==
    ctl.pc # "batch" => \A i \in 1..last_update_id : i \in ctl.tried

\* C20: the loop never ends: an iteration that raised is followed by a
\* further iteration, and polling and schedule execution are both attempted
\* again and again.
C20_LoopForever ==
    /\ (ctl.pc = "backoff") ~> (ctl.pc = "idle")
    /\ []<>(ctl.pc = "pending")
    /\ []<>(ctl.pc \in {"sleep", "backoff"})

\* schedule execution has raised in an iteration that had processed updates
C20_Witness ==
    /\ ctl.pc = "backoff"
    /\ ctl.tried # {}
    /\ ~HasRebuild(sched)

-----------------------------------------------------------------------------
(* Properties of the thread that runs the loop, checked under SpecCmd      *)

\* lines 121-125: the requests handle_document makes, in the thread that
\* calls it: getFile always, the file download when getFile gave a result
document_requests(outcome) ==
    CASE outcome \in {"doc:no_result", "doc:exception"} -> <<"getFile">>
      [] outcome \in DocOutcomes -> <<"getFile", "download">>
      [] OTHER -> <<>>

\* the network calls the control thread has made itself for the update it
\* handled last: handle_document and send_message are plain calls from
\* process_telegram_updates and parse_command, so their requests.get and
\* requests.post run in the calling thread
ControlCalls ==
    document_requests(inText) \o [i \in 1..Len(reply) |-> "sendMessage"]

\* C21: the control thread makes no network call for an update: every
\* message send and document download runs in a spawned thread.
C21_ControlNoNetwork == ControlCalls = <<>>

-----------------------------------------------------------------------------
(* Properties of the order of steps within a run, checked under SpecCap    *)

\* C22: when a run makes the scoring call for a posting, the posting's
\* identity is in the user's jobs_sent; and a match notification is sent only
\* in the step in which the scoring call for that same posting has returned a
\* result.
C22_MarkedWhenScored ==
    [][\A t \in Threads :
          /\ (th[t].pc = "score" /\ th'[t].scored = th[t].scored + 1)
                => InList(th[t].new_jobs[th[t].idx].id, users[th[t].chat].jobs_sent)
          /\ SendsMatch(t)
                => /\ th[t].pc = "score"
                   /\ ~th'[t].match_result.is_none
                   /\ th'[t].out[Len(th'[t].out)].id = th[t].new_jobs[th[t].idx].id]_vars

\* the mark-seen appends made for chat c in the running process: thread and
\* position in its new_jobs
Appends(c) ==
    {x \in Threads \X (1..(2 * PerSourceCap)) :
        ~th[x[1]].past /\ th[x[1]].chat = c /\ x[2] <= th[x[1]].marked}

\* C23: an identity appended by a mark-seen step is in the user's jobs_sent
\* for as long as fewer than 100 identities have been appended after it,
\* whatever other runs of the user do in between.
C23_OldestEvictedFirst ==
    \A c \in DOMAIN users :
        Cardinality(Appends(c)) <= JobsSentCap =>
            \A x \in Appends(c) :
                InList(th[x[1]].new_jobs[x[2]].id, users[c].jobs_sent)

-----------------------------------------------------------------------------
(* Properties of the schedule, checked under SpecRebuild                   *)

JobsOf(S, kind) == SelectSeq(S, LAMBDA j : j.kind = kind)

ActiveTimes(U) == {U[c].notification_time : c \in ActiveChats(U)}

\* S is the schedule built from scratch for the users U
WellBuilt(S, U) ==
    /\ Len(JobsOf(S, "heartbeat")) = 1
    /\ Len(JobsOf(S, "rebuild")) = 1
    /\ \A k \in ActiveTimes(U) : Len(SelectSeq(S, LAMBDA j : j = Job("daily", k))) = 1
    /\ \A i \in 1..Len(S) : S[i].kind = "daily" => S[i].at \in ActiveTimes(U)

\* C24: a step that handles an update (a registration, /time, /pause, ...)
\* leaves the schedule as it was; and after a step in which schedule_user_jobs
\* ran (the start of a process that goes on to its loop, or the 00:01 job) the
\* schedule holds exactly one daily job per distinct notification_time of the
\* active users and no other daily job, one heartbeat and one rebuild job.
C24_RebuildOnly ==
    [][/\ (inChat' # 0 /\ ctl'.slot # S_0001) => sched' = sched
       /\ ((inChat' = 0 \/ ctl'.slot = S_0001) /\ ctl'.pc # "exited")
             => WellBuilt(sched', users')]_vars

-----------------------------------------------------------------------------
(* Properties of pausing, checked under SpecPause                          *)

\* this step is the control thread handling a text that starts with cmd,
\* from a chat that has a profile
HandlesCmd(cmd) ==
    /\ th' = th /\ ctl'.slot = <<>>
    /\ inChat' \in DOMAIN users
    /\ IsCmd(Chars(inText'), cmd)

\* C25: the step a run takes from its start while the user's is_active is
\* false ends the run with no fetch, no scoring call and no message, and
\* leaves users and the file as they were; and a step that handles /pause or
\* /resume changes nothing but is_active of that user's profile.
C25_PausedRunNoop ==
    [][/\ \A t \in Threads :
             (/\ th[t].pc = "start" /\ th[t].kind = "jobs" /\ th'[t] # th[t]
              /\ th[t].chat \in DOMAIN users
              /\ ~users[th[t].chat].is_active)
             => /\ th'[t].pc = "done"
                /\ th'[t].out = <<>>
                /\ th'[t].query = <<>> /\ th'[t].jobs = <<>>
                /\ th'[t].scored = 0 /\ th'[t].marked = 0
                /\ users' = users /\ disk' = disk
       /\ HandlesCmd(C_pause) => users' = [users EXCEPT ![inChat'].is_active = FALSE]
       /\ HandlesCmd(C_resume) => users' = [users EXCEPT ![inChat'].is_active = TRUE]]_vars

\* a run that /jobs started for a paused user has ended without doing anything
C25_Witness ==
    \E t \in Threads :
        /\ th[t].pc = "done" /\ th[t].kind = "jobs"
        /\ inText = "/jobs" /\ inChat = th[t].chat
        /\ ~users[th[t].chat].is_active
        /\ th[t].out = <<>> /\ th[t].jobs = <<>> /\ th[t].scored = 0

-----------------------------------------------------------------------------
(* Properties of posting identities, checked under Spec                    *)

\* the postings thread t was given by its fetch
Fetched(t) == {th[t].jobs[i] : i \in 1..Len(th[t].jobs)}

\* C26: two fetches of the same posting (same source, same link) give it the
\* same identity, whether the two fetches are made by runs of one process or
\* by a run before and a run after a restart.
C26_StableIdentity ==
    \A s, t \in Threads :
        \A a \in Fetched(s), b \in Fetched(t) :
            (a.source = b.source /\ a.link = b.link) => a.id = b.id

====
